---- MODULE Spec2Model ----
(***************************************************************************)
(* Model of the suggestion-metrics analysis pipeline.                      *)
(*                                                                         *)
(*   analysis/compute_suggestion_metrics.py  replay of one session log     *)
(*                                           and the directory scan        *)
(*   analysis/compute_aggregate_metrics.py   mapping load, aggregation     *)
(*                                           and the two-proportion z-test *)
(*   run_testcases.py                        test harness: fixture choice, *)
(*                                           child runs, comparison, tally *)
(***************************************************************************)
EXTENDS Integers, Sequences, FiniteSets, TLC

(* ------------------------------------------------------------------ *)
(* Bounds of the model                                                *)
(* ------------------------------------------------------------------ *)
MaxRows == 3        \* rows read from one log
MaxBuf == 3         \* longest reconstructed buffer
MaxLen == 3         \* longest action_info text of a suggestion
MaxCaret == 3       \* largest caret_index / deletion count written in a row
MaxLogs == 2        \* .csv files in one assistant directory
MaxEntries == 2     \* top-level values of one mapping file
MaxCount == 3       \* largest total_proposed / total_accepted of a method
MaxProblems == 2    \* problem directories under the base directory
MaxBaseEntries == 2 \* mapping entries in all mapping files of the base directory
MaxBaseLogs == 2    \* logs in all assistant directories of the base directory
MaxText == 3        \* characters of a text given to normalize
MaxCases == 2       \* cases of a fixture list

(* ------------------------------------------------------------------ *)
(* State of compute_metrics_for_csv                                   *)
(* ------------------------------------------------------------------ *)
VARIABLES
    hdr,                        \* resolved columns: action_col, info_col, caret_col
    pc,                         \* "open", "rows", "fallback", "done", "raised"
    buf,                        \* origin tags 'S', 'T', 'U'
    caret,                      \* current caret index
    proposed,
    accepted,
    suggested_chars,
    suggested_chars_deleted,
    action,                     \* the action of the row the loop body handled last
    n,                          \* the deletion count of the last deletion row
    exc,                        \* exception leaving the function, "none" if none
    nrows,                      \* rows read so far
    nprop,                      \* rows read so far whose action is proposed_suggestion
    nacc,                       \* rows read so far whose action is accepted_suggestion
    sample,                     \* recogniser of the accept-then-delete log
    doc,                        \* origin of each character of the real editor's document
    docCaret,                   \* the real editor's caret
    docDeleted,                 \* suggested characters the real editor removed
    consistent                  \* the log so far is the real editor's log

replayVars == <<hdr, pc, buf, caret, proposed, accepted, suggested_chars,
                suggested_chars_deleted, action, n, exc, nrows, nprop, nacc,
                sample, doc, docCaret, docDeleted, consistent>>

(* State of a call of scan_problems_dir *)
VARIABLES
    scanDir,                    \* the path given and what lies under it
    scanResult                  \* what the call returned or raised

scanVars == <<scanDir, scanResult>>

(* State of a call of load_mapping_file *)
VARIABLES
    mapFile,                    \* mapping_do_not_read.json of the problem directory
    mapResult                   \* what the call returned or raised

mapVars == <<mapFile, mapResult>>

(* State of a call of two_proportion_z_test *)
VARIABLES
    norm,                       \* scipy.stats.norm was imported
    metrics1,                   \* total_proposed and total_accepted of method 1
    metrics2,                   \* total_proposed and total_accepted of method 2
    p_value                     \* the value returned

zVars == <<norm, metrics1, metrics2, p_value>>

(* State of a run of process_all_problems *)
VARIABLES
    aggPc,                      \* "start", "loop", "done", "raised"
    baseKind,                   \* problems_base_dir: "absent", "file" or "dir"
    all_results,                \* (problem_name, results) of the problems scanned
    all_mappings,               \* (problem_name, mapping) of every problem
    method_metrics,             \* method_name -> AggregateMetrics, in dict order
    aggExc,                     \* exception leaving the run, "none" if none
    named,                      \* per problem: the methods its mapping file names
    failed,                     \* problems whose scan failed
    usedEntries                 \* mapping entries read so far

aggVars == <<aggPc, baseKind, all_results, all_mappings, method_metrics, aggExc,
             named, failed, usedEntries>>

(* State of a call of normalize *)
VARIABLES
    normIn,                     \* the text given
    normOut                     \* the text returned

normVars == <<normIn, normOut>>

(* State of two runs of the aggregate report *)
VARIABLES
    baseA,                      \* a base directory: its problem directories in name order
    baseB,                      \* the same, the entries of its mapping files reordered
    reportA,                    \* what main prints for baseA
    reportB                     \* what main prints for baseB

reportVars == <<baseA, baseB, reportA, reportB>>

(* State of a run of the test harness *)
VARIABLES
    hPc,                        \* "start", "loop", "child", "break", "done", "raised"
    args,                       \* the parsed command line
    cases_from_file,            \* the document of the --cases file
    cases,                      \* the fixture list chosen
    idx,                        \* cases finished so far
    hFailed,                    \* failed
    child,                      \* what the child of the last case did
    completed,                  \* what run_one_case returned for the last case
    running,                    \* the cases whose child is running
    launched,                   \* the cases launched, in launch order
    case_results,               \* passed, per finished case
    tally,                      \* the counts of the final line
    exit_status                 \* the exit status of the harness process

harnessVars == <<hPc, args, cases_from_file, cases, idx, hFailed, child, completed,
                 running, launched, case_results, tally, exit_status>>

vars == <<replayVars, scanVars, mapVars, zVars, aggVars, normVars, reportVars,
          harnessVars>>

(* ------------------------------------------------------------------ *)
(* Values found in a log row                                          *)
(* ------------------------------------------------------------------ *)
Actions == {"proposed_suggestion", "accepted_suggestion", "character_typed",
            "deletion", "current_code", "cursor_moved", ""}

\* action_info: absent (None), or a string of length len; int(str(info).strip() or 0)
\* succeeds with value val when num, raises ValueError otherwise.
InfoNone == [present |-> FALSE, len |-> 0, num |-> FALSE, val |-> 0]
InfoEmpty == [present |-> TRUE, len |-> 0, num |-> TRUE, val |-> 0]
InfoBlank == [present |-> TRUE, len |-> 1, num |-> TRUE, val |-> 0]
InfoText(l) == [present |-> TRUE, len |-> l, num |-> FALSE, val |-> 0]
InfoNum(v) == [present |-> TRUE, len |-> IF v < 0 THEN 2 ELSE 1, num |-> TRUE, val |-> v]
Infos == {InfoNone, InfoEmpty, InfoBlank}
         \cup {InfoText(l) : l \in 1..MaxLen}
         \cup {InfoNum(v) : v \in -1..MaxCaret}

\* caret_index: absent (None), "", a non-numeric string, or the decimal text of val.
CaretNone == [kind |-> "none", val |-> 0]
CaretEmpty == [kind |-> "empty", val |-> 0]
CaretBad == [kind |-> "bad", val |-> 0]
CaretInt(v) == [kind |-> "int", val |-> v]
Carets == {CaretNone, CaretEmpty, CaretBad} \cup {CaretInt(v) : v \in -1..MaxCaret}

Rows == [action : Actions, info : Infos, caret : Carets]

\* A line of the position-based fallback parser: its number of tab-separated
\* parts and its second field.
Lines == [parts : 1..3, second : Actions]

Headers == [action : BOOLEAN, info : BOOLEAN, caret : BOOLEAN, empty : BOOLEAN]

(* ------------------------------------------------------------------ *)
(* Helpers of the replay                                              *)
(* ------------------------------------------------------------------ *)
Max(a, b) == IF a > b THEN a ELSE b
Min(a, b) == IF a < b THEN a ELSE b

\* clamp without its upper limit
clampLowOnly(v, lo, hi) == Max(lo, v)
clamp(v, lo, hi) == Max(lo, Min(hi, v))

Rep(tag, k) == [i \in 1..Max(0, k) |-> tag]

\* buf[i:i] = xs : Python slice assignment, the index clipped like a slice bound.
SliceIndex(b, i) == IF i < 0 THEN Max(0, Len(b) + i) ELSE Min(i, Len(b))
\* the slice assignment buf[i:i+len(xs)] = xs, which overwrites
SliceOverwrite(b, i, xs) ==
    SubSeq(b, 1, SliceIndex(b, i)) \o xs \o SubSeq(b, SliceIndex(b, i) + Len(xs) + 1, Len(b))
SliceInsert(b, i, xs) ==
    SubSeq(b, 1, SliceIndex(b, i)) \o xs \o SubSeq(b, SliceIndex(b, i) + 1, Len(b))

\* buf.extend(['U'] * (before - len(buf))) when before > len(buf)
Pad(b, before) == IF before > Len(b) THEN b \o Rep("U", before - Len(b)) ELSE b

\* buf.pop(i): IndexError when i is out of range, negative i counts from the end.
PopOk(b, i) == i < Len(b) /\ i >= 0 - Len(b)
PopIndex(b, i) == IF i < 0 THEN Len(b) + i + 1 ELSE i + 1
PopTag(b, i) == b[PopIndex(b, i)]
\* a pop that leaves the list as it was
PopRestKeepsTag(b, i) == b
PopRest(b, i) == SubSeq(b, 1, PopIndex(b, i) - 1) \o SubSeq(b, PopIndex(b, i) + 1, Len(b))

\* caret_after of a row: int(row.get(caret_col) or caret), caret on ValueError
\* or when there is no caret_index column.
ParseCaret(h, r, c) ==
    IF h.caret /\ r.caret.kind = "int" THEN r.caret.val ELSE c

\* info of a row: row.get(info_col) if there is an action_info column
RowInfo(h, r) == IF h.info THEN r.info ELSE InfoNone

\* caret_after clamped before the mutation for every action
CaretAfterClamped(h, r, b, c) == clamp(ParseCaret(h, r, c), 0, Len(b))
\* clamp(caret_after, 0, len(buf)) if action != "accepted_suggestion" else caret_after
CaretAfter(h, r, b, c) ==
    IF r.action # "accepted_suggestion"
    THEN clamp(ParseCaret(h, r, c), 0, Len(b))
    ELSE ParseCaret(h, r, c)

\* n of a deletion row: the explicit count of info, else the caret delta
DeletionCount(info, before, caret_after) ==
    LET explicit == IF info.present /\ info.num THEN info.val ELSE 0
    IN  IF explicit <= 0 THEN Max(0, before - caret_after) ELSE explicit

\* the loop counting every removed tag
RECURSIVE DeleteLoopAnyTag(_, _, _, _)
DeleteLoopAnyTag(b, c, k, cnt) ==
    IF k <= 0 THEN [buf |-> b, caret |-> c, deleted |-> cnt, err |-> FALSE]
    ELSE IF ~PopOk(b, c - 1) THEN [buf |-> b, caret |-> c, deleted |-> cnt, err |-> TRUE]
    ELSE DeleteLoopAnyTag(PopRest(b, c - 1), c - 1, k - 1, cnt + 1)
\* for _ in range(k): ch = buf.pop(caret - 1); count 'S'; caret -= 1
RECURSIVE DeleteLoop(_, _, _, _)
DeleteLoop(b, c, k, cnt) ==
    IF k <= 0 THEN [buf |-> b, caret |-> c, deleted |-> cnt, err |-> FALSE]
    ELSE IF ~PopOk(b, c - 1) THEN [buf |-> b, caret |-> c, deleted |-> cnt, err |-> TRUE]
    ELSE DeleteLoop(PopRest(b, c - 1), c - 1, k - 1,
                    cnt + (IF PopTag(b, c - 1) = "S" THEN 1 ELSE 0))

(* ------------------------------------------------------------------ *)
(* The real editor whose session the log records, and the recogniser   *)
(* of the accept-then-delete log                                       *)
(* ------------------------------------------------------------------ *)
CountS(s) == Cardinality({i \in DOMAIN s : s[i] = "S"})

FullHeader(h) == h.action /\ h.info /\ h.caret /\ ~h.empty

EditorTypes(r) ==
    /\ r.action = "character_typed"
    /\ r.caret = CaretInt(docCaret + 1)
EditorAccepts(r) ==
    /\ r.action = "accepted_suggestion"
    /\ r.info.present
    /\ r.caret = CaretInt(docCaret + r.info.len)
EditorDeletes(r) ==
    /\ r.action = "deletion"
    /\ r.info.present /\ r.info.num /\ r.info.val >= 1 /\ r.info.val <= docCaret
    /\ r.info = InfoNum(r.info.val)
    /\ r.caret = CaretInt(docCaret - r.info.val)
EditorRow(r) == EditorTypes(r) \/ EditorAccepts(r) \/ EditorDeletes(r)

EditorDoc(r) ==
    IF EditorTypes(r) THEN SliceInsert(doc, docCaret, <<"T">>)
    ELSE IF EditorAccepts(r) THEN SliceInsert(doc, docCaret, Rep("S", r.info.len))
    ELSE SubSeq(doc, 1, docCaret - r.info.val) \o SubSeq(doc, docCaret + 1, Len(doc))
EditorRemoved(r) ==
    IF EditorDeletes(r) THEN CountS(SubSeq(doc, docCaret - r.info.val + 1, docCaret)) ELSE 0

Editor(r) ==
    IF consistent /\ FullHeader(hdr) /\ EditorRow(r) /\ Len(EditorDoc(r)) <= MaxBuf
    THEN /\ consistent' = TRUE
         /\ doc' = EditorDoc(r)
         /\ docCaret' = r.caret.val
         /\ docDeleted' = docDeleted + EditorRemoved(r)
    ELSE /\ consistent' = FALSE
         /\ doc' = <<>>
         /\ docCaret' = 0
         /\ docDeleted' = 0

SampleStart == [st |-> "start", L |-> 0, n |-> 0]
SampleOff == [st |-> "off", L |-> 0, n |-> 0]
SampleNext(r) ==
    IF /\ sample.st = "start" /\ FullHeader(hdr)
       /\ r.action = "accepted_suggestion"
       /\ r.info.present /\ r.info.len > 0
       /\ r.caret = CaretInt(r.info.len)
    THEN [st |-> "acc", L |-> r.info.len, n |-> 0]
    ELSE IF /\ sample.st = "acc"
            /\ r.action = "deletion"
            /\ r.info.present /\ r.info.num /\ r.info = InfoNum(r.info.val)
            /\ r.info.val >= 1 /\ r.info.val <= sample.L
            /\ r.caret = CaretInt(sample.L - r.info.val)
    THEN [st |-> "del", L |-> sample.L, n |-> r.info.val]
    ELSE SampleOff

\* bookkeeping of the row just read
Read(r) ==
    /\ action' = r.action
    /\ nrows' = nrows + 1
    /\ nprop' = nprop + (IF r.action = "proposed_suggestion" THEN 1 ELSE 0)
    /\ nacc' = nacc + (IF r.action = "accepted_suggestion" THEN 1 ELSE 0)
    /\ sample' = SampleNext(r)
    /\ Editor(r)

(* ------------------------------------------------------------------ *)
(* compute_metrics_for_csv                                            *)
(* ------------------------------------------------------------------ *)
\* the rows a reader with header h can yield; a column the header lacks is
\* absent from every row, and action_info is drawn only for the two actions
\* whose handlers read it
InfosOf(h) == IF h.info THEN Infos ELSE {InfoNone}
CaretsOf(h) == IF h.caret THEN Carets ELSE {CaretNone}
Row(a, i, c) == [action |-> a, info |-> i, caret |-> c]

\* the values of the report and harness state while neither runs
NoRun == [printed |-> "nothing"]
NoArgs == [mode |-> "", cases |-> FALSE, exact |-> FALSE, stop_on_fail |-> FALSE]
NoFile == [key |-> "", list |-> <<>>]
NoChild == [returncode |-> 0, stdout |-> <<>>, stderr |-> "", timed_out |-> FALSE]
NoCompleted == [returncode |-> 0, stdout |-> <<>>, stderr |-> ""]
NoTally == [failed |-> 0, total |-> 0, passed |-> 0]
NoExit == 0 - 1

\* the result of a call that has not been made yet
Pending == [raised |-> "pending", value |-> <<>>]

InitReplay ==
    /\ hdr \in {h \in Headers : h.empty => (~h.action /\ ~h.info /\ ~h.caret)}
    /\ pc = "open"
    /\ buf = <<>>
    /\ caret = 0
    /\ proposed = 0
    /\ accepted = 0
    /\ suggested_chars = 0
    /\ suggested_chars_deleted = 0
    /\ action = ""
    /\ n = 0
    /\ exc = "none"
    /\ nrows = 0
    /\ nprop = 0
    /\ nacc = 0
    /\ sample = SampleStart
    /\ doc = <<>>
    /\ docCaret = 0
    /\ docDeleted = 0
    /\ consistent = TRUE
    \* the other functions are not running
    /\ scanDir = [kind |-> "absent"] /\ scanResult = Pending
    /\ mapFile = [kind |-> "absent", entries |-> <<>>] /\ mapResult = Pending
    /\ norm = FALSE
    /\ metrics1 = [total_proposed |-> 0, total_accepted |-> 0]
    /\ metrics2 = [total_proposed |-> 0, total_accepted |-> 0]
    /\ p_value = "pending"
    /\ aggPc = "idle" /\ baseKind = "absent"
    /\ all_results = <<>> /\ all_mappings = <<>> /\ method_metrics = <<>>
    /\ aggExc = "none" /\ named = <<>> /\ failed = {}
    /\ usedEntries = 0
    /\ normIn = <<>> /\ normOut = <<>>
    /\ baseA = <<>> /\ baseB = <<>> /\ reportA = NoRun /\ reportB = NoRun
    /\ hPc = "idle" /\ args = NoArgs /\ cases_from_file = NoFile /\ cases = <<>>
    /\ idx = 0 /\ hFailed = 0 /\ child = NoChild /\ completed = NoCompleted
    /\ running = {} /\ launched = <<>> /\ case_results = <<>>
    /\ tally = NoTally /\ exit_status = NoExit

\* reader = csv.DictReader(f); no fieldnames: return Metrics();
\* no action_type column: the position-based fallback parser
Open ==
    /\ pc = "open"
    /\ pc' = IF hdr.empty THEN "done" ELSE IF hdr.action THEN "rows" ELSE "fallback"
    /\ UNCHANGED <<hdr, buf, caret, proposed, accepted, suggested_chars,
                   suggested_chars_deleted, action, n, exc, nrows, nprop, nacc,
                   sample, doc, docCaret, docDeleted, consistent>>
    /\ UNCHANGED <<scanVars, mapVars, zVars, aggVars, normVars, reportVars,
                   harnessVars>>

FallbackLine(l) ==
    /\ pc = "fallback"
    /\ nrows < MaxRows
    /\ nrows' = nrows + 1
    /\ nprop' = nprop + (IF l.parts >= 2 /\ l.second = "proposed_suggestion" THEN 1 ELSE 0)
    /\ nacc' = nacc + (IF l.parts >= 2 /\ l.second = "accepted_suggestion" THEN 1 ELSE 0)
    /\ proposed' = IF l.parts >= 2 /\ l.second = "proposed_suggestion"
                   THEN proposed + 1 ELSE proposed
    /\ accepted' = IF l.parts >= 2 /\ l.second # "proposed_suggestion"
                      /\ l.second = "accepted_suggestion"
                   THEN accepted + 1 ELSE accepted
    /\ consistent' = FALSE
    /\ sample' = SampleOff
    /\ UNCHANGED <<hdr, pc, buf, caret, suggested_chars, suggested_chars_deleted,
                   action, n, exc, doc, docCaret, docDeleted>>
    /\ UNCHANGED <<scanVars, mapVars, zVars, aggVars, normVars, reportVars,
                   harnessVars>>

\* a proposed_suggestion row that also syncs the caret, as a movement row does
ProposedSyncsCaret(r) ==
    /\ pc = "rows" /\ nrows < MaxRows
    /\ r.action = "proposed_suggestion"
    /\ Read(r)
    /\ proposed' = proposed + 1
    /\ caret' = clamp(CaretAfter(hdr, r, buf, caret), 0, Len(buf))
    /\ UNCHANGED <<hdr, pc, buf, accepted, suggested_chars,
                   suggested_chars_deleted, n, exc>>
    /\ UNCHANGED <<scanVars, mapVars, zVars, aggVars, normVars, reportVars,
                   harnessVars>>
Proposed(r) ==
    /\ pc = "rows" /\ nrows < MaxRows
    /\ r.action = "proposed_suggestion"
    /\ Read(r)
    /\ proposed' = proposed + 1
    /\ UNCHANGED <<hdr, pc, buf, caret, accepted, suggested_chars,
                   suggested_chars_deleted, n, exc>>
    /\ UNCHANGED <<scanVars, mapVars, zVars, aggVars, normVars, reportVars,
                   harnessVars>>

Accepted(r) ==
    /\ pc = "rows" /\ nrows < MaxRows
    /\ r.action = "accepted_suggestion"
    /\ LET info == RowInfo(hdr, r)
           caret_after == CaretAfter(hdr, r, buf, caret)
           before == caret
           suggestion_length == IF info.present /\ info.len > 0 THEN info.len ELSE 0
           grown == IF suggestion_length > 0
                    THEN SliceInsert(Pad(buf, before), before, Rep("S", suggestion_length))
                    ELSE buf
       IN  /\ Len(grown) <= MaxBuf
           /\ buf' = grown
           /\ suggested_chars' = suggested_chars + suggestion_length
           /\ caret' = clamp(caret_after, 0, Len(grown))
    /\ Read(r)
    /\ accepted' = accepted + 1
    /\ UNCHANGED <<hdr, pc, proposed, suggested_chars_deleted, n, exc>>
    /\ UNCHANGED <<scanVars, mapVars, zVars, aggVars, normVars, reportVars,
                   harnessVars>>

CharacterTyped(r) ==
    /\ pc = "rows" /\ nrows < MaxRows
    /\ r.action = "character_typed"
    /\ LET caret_after == CaretAfter(hdr, r, buf, caret)
           before == caret
           d == Max(0, caret_after - before)
           grown == IF d > 0
                    THEN SliceInsert(Pad(buf, before), before, Rep("T", d))
                    ELSE buf
       IN  /\ Len(grown) <= MaxBuf
           /\ buf' = grown
           /\ caret' = clamp(caret_after, 0, Len(grown))
    /\ Read(r)
    /\ UNCHANGED <<hdr, pc, proposed, accepted, suggested_chars,
                   suggested_chars_deleted, n, exc>>
    /\ UNCHANGED <<scanVars, mapVars, zVars, aggVars, normVars, reportVars,
                   harnessVars>>

Deletion(r) ==
    /\ pc = "rows" /\ nrows < MaxRows
    /\ r.action = "deletion"
    /\ LET info == RowInfo(hdr, r)
           caret_after == CaretAfter(hdr, r, buf, caret)
           before == caret
           count == DeletionCount(info, before, caret_after)
           start == clamp(before, 0, Len(buf))
           res == DeleteLoop(buf, start, Min(count, start), 0)
       IN  /\ n' = count
           /\ buf' = res.buf
           /\ suggested_chars_deleted' = suggested_chars_deleted + res.deleted
           /\ IF res.err
              THEN /\ pc' = "raised"
                   /\ exc' = "IndexError"
                   /\ caret' = res.caret
              ELSE /\ pc' = pc
                   /\ exc' = exc
                   /\ caret' = clamp(caret_after, 0, Len(res.buf))
    /\ Read(r)
    /\ UNCHANGED <<hdr, proposed, accepted, suggested_chars>>
    /\ UNCHANGED <<scanVars, mapVars, zVars, aggVars, normVars, reportVars,
                   harnessVars>>

CurrentCode(r) ==
    /\ pc = "rows" /\ nrows < MaxRows
    /\ r.action = "current_code"
    /\ LET caret_after == CaretAfter(hdr, r, buf, caret)
           fresh == Rep("U", Max(0, caret_after))
       IN  /\ Len(fresh) <= MaxBuf
           /\ buf' = fresh
           /\ caret' = clamp(caret_after, 0, Len(fresh))
    /\ Read(r)
    /\ UNCHANGED <<hdr, pc, proposed, accepted, suggested_chars,
                   suggested_chars_deleted, n, exc>>
    /\ UNCHANGED <<scanVars, mapVars, zVars, aggVars, normVars, reportVars,
                   harnessVars>>

Movement(r) ==
    /\ pc = "rows" /\ nrows < MaxRows
    /\ r.action \notin {"proposed_suggestion", "accepted_suggestion",
                         "character_typed", "deletion", "current_code"}
    /\ caret' = clamp(CaretAfter(hdr, r, buf, caret), 0, Len(buf))
    /\ Read(r)
    /\ UNCHANGED <<hdr, pc, buf, proposed, accepted, suggested_chars,
                   suggested_chars_deleted, n, exc>>
    /\ UNCHANGED <<scanVars, mapVars, zVars, aggVars, normVars, reportVars,
                   harnessVars>>

\* end of the file: return Metrics(...)
Return ==
    /\ pc \in {"rows", "fallback"}
    /\ pc' = "done"
    /\ UNCHANGED <<hdr, buf, caret, proposed, accepted, suggested_chars,
                   suggested_chars_deleted, action, n, exc, nrows, nprop, nacc,
                   sample, doc, docCaret, docDeleted, consistent>>
    /\ UNCHANGED <<scanVars, mapVars, zVars, aggVars, normVars, reportVars,
                   harnessVars>>

\* the value compute_metrics_for_csv returns
Metrics(p, a, sc, scd) ==
    [proposed |-> p, accepted |-> a, suggested_chars |-> sc, suggested_chars_deleted |-> scd]
Returned == Metrics(proposed, accepted, suggested_chars, suggested_chars_deleted)

NextReplay ==
    \/ Open
    \/ \E l \in Lines : FallbackLine(l)
    \/ \E c \in CaretsOf(hdr) : Proposed(Row("proposed_suggestion", InfoNone, c))
    \/ \E i \in InfosOf(hdr), c \in CaretsOf(hdr) : Accepted(Row("accepted_suggestion", i, c))
    \/ \E c \in CaretsOf(hdr) : CharacterTyped(Row("character_typed", InfoNone, c))
    \/ \E i \in InfosOf(hdr), c \in CaretsOf(hdr) : Deletion(Row("deletion", i, c))
    \/ \E c \in CaretsOf(hdr) : CurrentCode(Row("current_code", InfoNone, c))
    \/ \E a \in Actions, c \in CaretsOf(hdr) : Movement(Row(a, InfoNone, c))
    \/ Return

SpecReplay ==
    /\ InitReplay
    /\ [][NextReplay]_vars

(* ------------------------------------------------------------------ *)
(* scan_problems_dir                                                  *)
(* ------------------------------------------------------------------ *)
Dirs == {"assistant_1", "assistant_2"}

\* Metrics of the logs found on disk: what compute_metrics_for_csv returns for them
LogMetrics == {Metrics(2, 1, 3, 1), Metrics(0, 1, 2, 0)}

RECURSIVE SeqsUpTo(_, _)
SeqsUpTo(S, k) ==
    IF k <= 0 THEN {<<>>}
    ELSE SeqsUpTo(S, k - 1) \cup {Append(q, x) : q \in {t \in SeqsUpTo(S, k - 1) : Len(t) = k - 1}, x \in S}

\* What lies directly inside one assistant directory: the regular files named
\* *.csv in name order (each given by its Metrics), whether there is a file of
\* another name, a subdirectory that holds a .csv file, a directory named *.csv.
Contents == [logs : SeqsUpTo(LogMetrics, MaxLogs), other : BOOLEAN,
             nested : BOOLEAN, csvdir : BOOLEAN]

\* A path: absent, a regular file, or a directory with plain files (rootfile)
\* and subdirectories.
ScanDirs ==
    {[kind |-> "absent"], [kind |-> "file"]}
    \cup UNION {[kind : {"dir"}, rootfile : BOOLEAN, sub : [D -> Contents]] : D \in SUBSET Dirs}

\* assistant_dir.glob("*.csv"): every entry of that name, directories too;
\* opening a directory raises IsADirectoryError
GlobRaises(c) == c.csvdir

scan_problems_dir(d) ==
    IF d.kind # "dir"
    THEN [raised |-> "SystemExit", value |-> <<>>]
    ELSE IF \E a \in DOMAIN d.sub : GlobRaises(d.sub[a])
    THEN [raised |-> "IsADirectoryError", value |-> <<>>]
    ELSE [raised |-> "none",
          value |-> [a \in {x \in DOMAIN d.sub : Len(d.sub[x].logs) > 0} |-> d.sub[a].logs]]

InitScan ==
    /\ scanDir \in ScanDirs
    /\ scanResult = Pending
    \* the other functions are not running
    /\ hdr = [action |-> FALSE, info |-> FALSE, caret |-> FALSE, empty |-> TRUE]
    /\ pc = "idle"
    /\ buf = <<>> /\ caret = 0 /\ proposed = 0 /\ accepted = 0
    /\ suggested_chars = 0 /\ suggested_chars_deleted = 0
    /\ action = "" /\ n = 0 /\ exc = "none"
    /\ nrows = 0 /\ nprop = 0 /\ nacc = 0
    /\ sample = SampleOff
    /\ doc = <<>> /\ docCaret = 0 /\ docDeleted = 0 /\ consistent = FALSE
    /\ mapFile = [kind |-> "absent", entries |-> <<>>] /\ mapResult = Pending
    /\ norm = FALSE
    /\ metrics1 = [total_proposed |-> 0, total_accepted |-> 0]
    /\ metrics2 = [total_proposed |-> 0, total_accepted |-> 0]
    /\ p_value = "pending"
    /\ aggPc = "idle" /\ baseKind = "absent"
    /\ all_results = <<>> /\ all_mappings = <<>> /\ method_metrics = <<>>
    /\ aggExc = "none" /\ named = <<>> /\ failed = {}
    /\ usedEntries = 0
    /\ normIn = <<>> /\ normOut = <<>>
    /\ baseA = <<>> /\ baseB = <<>> /\ reportA = NoRun /\ reportB = NoRun
    /\ hPc = "idle" /\ args = NoArgs /\ cases_from_file = NoFile /\ cases = <<>>
    /\ idx = 0 /\ hFailed = 0 /\ child = NoChild /\ completed = NoCompleted
    /\ running = {} /\ launched = <<>> /\ case_results = <<>>
    /\ tally = NoTally /\ exit_status = NoExit

Scan ==
    /\ scanResult = Pending
    /\ scanResult' = scan_problems_dir(scanDir)
    /\ UNCHANGED scanDir
    /\ UNCHANGED <<replayVars, mapVars, zVars, aggVars, normVars, reportVars,
                   harnessVars>>

SpecScan ==
    /\ InitScan
    /\ [][Scan]_vars

(* ------------------------------------------------------------------ *)
(* load_mapping_file                                                  *)
(* ------------------------------------------------------------------ *)
Methods == {"eta4", "untrained10"}

\* A field of a top-level value: "<missing>", "" (a falsy value), a name, or
\* "<list>" (a JSON array, truthy and unhashable).
ObfValues == {"<missing>", "", "<list>"} \cup Dirs
ActValues == {"<missing>", ""} \cup Methods
MapEntries == [object : {TRUE}, obf : ObfValues, act : ActValues]
              \cup {[object |-> FALSE, obf |-> "<missing>", act |-> "<missing>"]}

\* The mapping file: absent, not parsable as JSON, a document whose top level is
\* no object, or an object with its values in document order.
MappingFiles ==
    {[kind |-> k, entries |-> <<>>] : k \in {"absent", "unparsable", "notobject"}}
    \cup [kind : {"object"}, entries : SeqsUpTo(MapEntries, MaxEntries)]

Truthy(v) == v \notin {"<missing>", ""}

\* result[k] = v of a Python dict, kept as the sequence of its items
DictHas(d, k) == \E i \in DOMAIN d : d[i][1] = k
DictSet(d, k, v) ==
    IF DictHas(d, k)
    THEN [i \in DOMAIN d |-> IF d[i][1] = k THEN <<k, v>> ELSE d[i]]
    ELSE Append(d, <<k, v>>)
DictGet(d, k) == d[CHOOSE i \in DOMAIN d : d[i][1] = k][2]
DictKeys(d) == {d[i][1] : i \in DOMAIN d}
DictValues(d) == {d[i][2] : i \in DOMAIN d}

\* the loop over mapping_data.values()
RECURSIVE ConvertEntries(_, _)
ConvertEntries(entries, result) ==
    IF entries = <<>> THEN [raised |-> "none", value |-> result]
    ELSE LET e == Head(entries)
         IN  IF e.object /\ Truthy(e.obf) /\ Truthy(e.act)
             THEN IF e.obf = "<list>"
                  THEN [raised |-> "TypeError", value |-> <<>>]
                  ELSE ConvertEntries(Tail(entries), DictSet(result, e.obf, e.act))
             ELSE ConvertEntries(Tail(entries), result)

load_mapping_file(f) ==
    IF f.kind = "absent" THEN [raised |-> "none", value |-> <<>>]
    ELSE IF f.kind = "unparsable" THEN [raised |-> "none", value |-> <<>>]
    ELSE IF f.kind = "notobject" THEN [raised |-> "AttributeError", value |-> <<>>]
    ELSE ConvertEntries(f.entries, <<>>)

InitMap ==
    /\ mapFile \in MappingFiles
    /\ mapResult = Pending
    \* the other functions are not running
    /\ hdr = [action |-> FALSE, info |-> FALSE, caret |-> FALSE, empty |-> TRUE]
    /\ pc = "idle"
    /\ buf = <<>> /\ caret = 0 /\ proposed = 0 /\ accepted = 0
    /\ suggested_chars = 0 /\ suggested_chars_deleted = 0
    /\ action = "" /\ n = 0 /\ exc = "none"
    /\ nrows = 0 /\ nprop = 0 /\ nacc = 0
    /\ sample = SampleOff
    /\ doc = <<>> /\ docCaret = 0 /\ docDeleted = 0 /\ consistent = FALSE
    /\ scanDir = [kind |-> "absent"] /\ scanResult = Pending
    /\ norm = FALSE
    /\ metrics1 = [total_proposed |-> 0, total_accepted |-> 0]
    /\ metrics2 = [total_proposed |-> 0, total_accepted |-> 0]
    /\ p_value = "pending"
    /\ aggPc = "idle" /\ baseKind = "absent"
    /\ all_results = <<>> /\ all_mappings = <<>> /\ method_metrics = <<>>
    /\ aggExc = "none" /\ named = <<>> /\ failed = {}
    /\ usedEntries = 0
    /\ normIn = <<>> /\ normOut = <<>>
    /\ baseA = <<>> /\ baseB = <<>> /\ reportA = NoRun /\ reportB = NoRun
    /\ hPc = "idle" /\ args = NoArgs /\ cases_from_file = NoFile /\ cases = <<>>
    /\ idx = 0 /\ hFailed = 0 /\ child = NoChild /\ completed = NoCompleted
    /\ running = {} /\ launched = <<>> /\ case_results = <<>>
    /\ tally = NoTally /\ exit_status = NoExit

LoadMapping ==
    /\ mapResult = Pending
    /\ mapResult' = load_mapping_file(mapFile)
    /\ UNCHANGED mapFile
    /\ UNCHANGED <<replayVars, scanVars, zVars, aggVars, normVars, reportVars,
                   harnessVars>>

SpecMap ==
    /\ InitMap
    /\ [][LoadMapping]_vars

(* ------------------------------------------------------------------ *)
(* two_proportion_z_test                                              *)
(* ------------------------------------------------------------------ *)
\* The value returned, by its position relative to 0.5: "nan", "half" (exactly
\* 0.5), "below" (< 0.5), "above" (> 0.5), or "nonreal" when se is the square
\* root of a negative number, a complex number.
two_proportion_z_test(m1, m2) ==
    LET n1 == m1.total_proposed
        x1 == m1.total_accepted
        n2 == m2.total_proposed
        x2 == m2.total_accepted
        \* the sign of p1 - p2 = x1/n1 - x2/n2
        diff == x1 * n2 - x2 * n1
        \* the sign of pooled_p * (1 - pooled_p), pooled_p = (x1 + x2) / (n1 + n2)
        spread == (x1 + x2) * ((n1 + n2) - (x1 + x2))
    IN  IF ~norm THEN "nan"
        ELSE IF n1 = 0 \/ n2 = 0 THEN "nan"
        ELSE IF diff = 0 THEN "half"
        ELSE IF spread < 0 THEN "nonreal"
        ELSE IF spread = 0 THEN "half"
        ELSE IF diff > 0 THEN "below"
        ELSE "above"

Totals == [total_proposed : 0..MaxCount, total_accepted : 0..MaxCount]

InitZ ==
    /\ norm \in BOOLEAN
    /\ metrics1 \in Totals
    /\ metrics2 \in Totals
    /\ p_value = "pending"
    \* the other functions are not running
    /\ hdr = [action |-> FALSE, info |-> FALSE, caret |-> FALSE, empty |-> TRUE]
    /\ pc = "idle"
    /\ buf = <<>> /\ caret = 0 /\ proposed = 0 /\ accepted = 0
    /\ suggested_chars = 0 /\ suggested_chars_deleted = 0
    /\ action = "" /\ n = 0 /\ exc = "none"
    /\ nrows = 0 /\ nprop = 0 /\ nacc = 0
    /\ sample = SampleOff
    /\ doc = <<>> /\ docCaret = 0 /\ docDeleted = 0 /\ consistent = FALSE
    /\ scanDir = [kind |-> "absent"] /\ scanResult = Pending
    /\ mapFile = [kind |-> "absent", entries |-> <<>>] /\ mapResult = Pending
    /\ aggPc = "idle" /\ baseKind = "absent"
    /\ all_results = <<>> /\ all_mappings = <<>> /\ method_metrics = <<>>
    /\ aggExc = "none" /\ named = <<>> /\ failed = {}
    /\ usedEntries = 0
    /\ normIn = <<>> /\ normOut = <<>>
    /\ baseA = <<>> /\ baseB = <<>> /\ reportA = NoRun /\ reportB = NoRun
    /\ hPc = "idle" /\ args = NoArgs /\ cases_from_file = NoFile /\ cases = <<>>
    /\ idx = 0 /\ hFailed = 0 /\ child = NoChild /\ completed = NoCompleted
    /\ running = {} /\ launched = <<>> /\ case_results = <<>>
    /\ tally = NoTally /\ exit_status = NoExit

ZTest ==
    /\ p_value = "pending"
    /\ p_value' = two_proportion_z_test(metrics1, metrics2)
    /\ UNCHANGED <<norm, metrics1, metrics2>>
    /\ UNCHANGED <<replayVars, scanVars, mapVars, aggVars, normVars, reportVars,
                   harnessVars>>

SpecZ ==
    /\ InitZ
    /\ [][ZTest]_vars

(* ------------------------------------------------------------------ *)
(* process_all_problems                                               *)
(* ------------------------------------------------------------------ *)
\* The logs of a problem directory under the base directory: the i-th log of an
\* assistant directory, by the Metrics compute_metrics_for_csv returns for it.
LogOf(a, i) ==
    IF (a = "assistant_1") = (i % 2 = 1) THEN Metrics(2, 1, 3, 1) ELSE Metrics(0, 1, 2, 0)
LogsOf(a, k) == [i \in 1..k |-> LogOf(a, i)]

\* The assistant directories of one problem directory: each holds a number of
\* logs, or nothing but a directory named *.csv.
ProblemTree(shape) ==
    [kind |-> "dir", rootfile |-> FALSE,
     sub |-> [a \in DOMAIN shape |->
                [logs |-> LogsOf(a, shape[a].count), other |-> FALSE, nested |-> FALSE,
                 csvdir |-> shape[a].csvdir]]]
RECURSIVE SumOver(_, _)
SumOver(S, f) ==
    IF S = {} THEN 0 ELSE LET x == CHOOSE y \in S : TRUE IN f[x] + SumOver(S \ {x}, f)
TreeLogs(t) == SumOver(DOMAIN t.sub, [a \in DOMAIN t.sub |-> Len(t.sub[a].logs)])
ProblemTrees ==
    {ProblemTree(shape) :
        shape \in UNION {[D -> [count : 0..MaxLogs, csvdir : {FALSE}]
                               \cup {[count |-> 0, csvdir |-> TRUE]}] : D \in SUBSET Dirs}}

\* The mapping files of the problem directories
ProblemEntries == [object : {TRUE}, obf : {"<missing>"} \cup Dirs, act : Methods]
ProblemFiles ==
    {[kind |-> x, entries |-> <<>>] : x \in {"absent", "unparsable", "notobject"}}
    \cup [kind : {"object"}, entries : SeqsUpTo(ProblemEntries, MaxEntries)]
\* the methods a mapping file names as an actualName (any), and those named by
\* an entry that carries both fields and whose obfuscatedDirName no later such
\* entry of the file repeats (kept), with the directory each such entry names
\* (pairs)
CarriesBoth(e) == e.object /\ Truthy(e.obf) /\ Truthy(e.act)
NamedIn(f) ==
    [any |-> {f.entries[i].act : i \in {j \in DOMAIN f.entries : f.entries[j].object}}
             \cap Methods,
     kept |-> {f.entries[i].act :
                 i \in {j \in DOMAIN f.entries :
                          /\ CarriesBoth(f.entries[j])
                          /\ \A l \in (j + 1)..Len(f.entries) :
                                ~(CarriesBoth(f.entries[l]) /\ f.entries[l].obf = f.entries[j].obf)}},
     pairs |-> {<<f.entries[i].obf, f.entries[i].act>> :
                 i \in {j \in DOMAIN f.entries :
                          /\ CarriesBoth(f.entries[j])
                          /\ \A l \in (j + 1)..Len(f.entries) :
                                ~(CarriesBoth(f.entries[l]) /\ f.entries[l].obf = f.entries[j].obf)}}]

\* the files by their number of entries, the trees by their number of logs
FilesOfLength == [e \in 0..MaxEntries |-> {f \in ProblemFiles : Len(f.entries) = e}]
TreesOfTotal == [k \in 0..(2 * MaxLogs) |-> {t \in ProblemTrees : TreeLogs(t) = k}]

\* method_to_assistants: method_name -> list of (problem_name, assistant_name)
RECURSIVE ReverseItems(_, _, _)
ReverseItems(problem_name, items, m2a) ==
    IF items = <<>> THEN m2a
    ELSE LET obfuscated_name == Head(items)[1]
             actual_name == Head(items)[2]
             old == IF DictHas(m2a, actual_name) THEN DictGet(m2a, actual_name) ELSE <<>>
         IN  ReverseItems(problem_name, Tail(items),
                          DictSet(m2a, actual_name, Append(old, <<problem_name, obfuscated_name>>)))
RECURSIVE ReverseMapping(_, _)
ReverseMapping(mappings, m2a) ==
    IF mappings = <<>> THEN m2a
    ELSE ReverseMapping(Tail(mappings), ReverseItems(Head(mappings)[1], Head(mappings)[2], m2a))

\* the results of a problem: the first entry of all_results of that name, else None
HasResults(results, problem_name) == \E i \in DOMAIN results : results[i][1] = problem_name
ResultsOf(results, problem_name) ==
    results[CHOOSE i \in DOMAIN results :
                /\ results[i][1] = problem_name
                /\ \A j \in 1..(i - 1) : results[j][1] # problem_name][2]

\* the field of the first log only
SumFieldHead(logs, field) == IF logs = <<>> THEN 0 ELSE Head(logs)[field]
RECURSIVE SumField(_, _)
SumField(logs, field) ==
    IF logs = <<>> THEN 0 ELSE Head(logs)[field] + SumField(Tail(logs), field)

NoAggregate ==
    [total_proposed |-> 0, total_accepted |-> 0, total_suggested_chars |-> 0,
     total_suggested_chars_deleted |-> 0, problem_count |-> 0, csv_file_count |-> 0,
     individual_acceptance_rates |-> <<>>, individual_avg_deleted_chars |-> <<>>,
     individual_avg_suggestion_lengths |-> <<>>]

\* one (problem_name, obfuscated_assistant) of the assistant list added to the
\* running totals; a rate x / y is kept as the pair <<x, y>>
AddAssistant(agg, results, problem_name, obfuscated_assistant) ==
    IF /\ HasResults(results, problem_name)
       /\ DOMAIN ResultsOf(results, problem_name) # {}
       /\ obfuscated_assistant \in DOMAIN ResultsOf(results, problem_name)
    THEN LET logs == ResultsOf(results, problem_name)[obfuscated_assistant]
             problem_proposed == SumField(logs, "proposed")
             problem_accepted == SumField(logs, "accepted")
             problem_suggested_chars_deleted == SumField(logs, "suggested_chars_deleted")
             problem_suggested_chars == SumField(logs, "suggested_chars")
         IN  [agg EXCEPT
                !.total_proposed = @ + problem_proposed,
                !.total_accepted = @ + problem_accepted,
                !.total_suggested_chars = @ + problem_suggested_chars,
                !.total_suggested_chars_deleted = @ + problem_suggested_chars_deleted,
                !.csv_file_count = @ + Len(logs),
                !.individual_acceptance_rates =
                    IF problem_proposed > 0
                    THEN Append(@, <<problem_accepted, problem_proposed>>) ELSE @,
                !.individual_avg_deleted_chars =
                    IF problem_accepted > 0
                    THEN Append(@, <<problem_suggested_chars_deleted, problem_accepted>>) ELSE @,
                !.individual_avg_suggestion_lengths =
                    IF problem_accepted > 0
                    THEN Append(@, <<problem_suggested_chars, problem_accepted>>) ELSE @]
    ELSE agg

RECURSIVE AddAssistants(_, _, _)
AddAssistants(agg, results, assistant_list) ==
    IF assistant_list = <<>> THEN agg
    ELSE AddAssistants(AddAssistant(agg, results, Head(assistant_list)[1], Head(assistant_list)[2]),
                       results, Tail(assistant_list))

\* problem_count counting the pairs of the assistant list
ProblemCountOfPairs(assistant_list) == Len(assistant_list)
\* problem_count = len(set(problem_name for problem_name, _ in assistant_list))
ProblemCount(assistant_list) ==
    Cardinality({assistant_list[i][1] : i \in DOMAIN assistant_list})

AggregateMethod(results, assistant_list) ==
    AddAssistants([NoAggregate EXCEPT !.problem_count = ProblemCount(assistant_list)],
                  results, assistant_list)

\* the part of process_all_problems after the loop over the problem directories
AggregateAll(mappings, results) ==
    LET m2a == ReverseMapping(mappings, <<>>)
    IN  [i \in DOMAIN m2a |-> <<m2a[i][1], AggregateMethod(results, m2a[i][2])>>]

\* the logs found so far
RECURSIVE UsedLogs(_)
UsedLogs(results) ==
    IF results = <<>> THEN 0
    ELSE LET r == Head(results)[2]
         IN  SumOver(DOMAIN r, [a \in DOMAIN r |-> Len(r[a])]) + UsedLogs(Tail(results))

InitAgg ==
    /\ aggPc = "start"
    /\ baseKind \in {"absent", "file", "dir"}
    /\ all_results = <<>>
    /\ all_mappings = <<>>
    /\ method_metrics = <<>>
    /\ aggExc = "none"
    /\ named = <<>>
    /\ failed = {}
    /\ usedEntries = 0
    \* the other functions are not running
    /\ hdr = [action |-> FALSE, info |-> FALSE, caret |-> FALSE, empty |-> TRUE]
    /\ pc = "idle"
    /\ buf = <<>> /\ caret = 0 /\ proposed = 0 /\ accepted = 0
    /\ suggested_chars = 0 /\ suggested_chars_deleted = 0
    /\ action = "" /\ n = 0 /\ exc = "none"
    /\ nrows = 0 /\ nprop = 0 /\ nacc = 0
    /\ sample = SampleOff
    /\ doc = <<>> /\ docCaret = 0 /\ docDeleted = 0 /\ consistent = FALSE
    /\ scanDir = [kind |-> "absent"] /\ scanResult = Pending
    /\ mapFile = [kind |-> "absent", entries |-> <<>>] /\ mapResult = Pending
    /\ norm = FALSE
    /\ metrics1 = [total_proposed |-> 0, total_accepted |-> 0]
    /\ metrics2 = [total_proposed |-> 0, total_accepted |-> 0]
    /\ p_value = "pending"
    /\ normIn = <<>> /\ normOut = <<>>
    /\ baseA = <<>> /\ baseB = <<>> /\ reportA = NoRun /\ reportB = NoRun
    /\ hPc = "idle" /\ args = NoArgs /\ cases_from_file = NoFile /\ cases = <<>>
    /\ idx = 0 /\ hFailed = 0 /\ child = NoChild /\ completed = NoCompleted
    /\ running = {} /\ launched = <<>> /\ case_results = <<>>
    /\ tally = NoTally /\ exit_status = NoExit

\* if not problems_base_dir.exists() or not problems_base_dir.is_dir(): raise SystemExit
CheckBase ==
    /\ aggPc = "start"
    /\ IF baseKind = "dir"
       THEN aggPc' = "loop" /\ aggExc' = aggExc
       ELSE aggPc' = "raised" /\ aggExc' = "SystemExit"
    /\ UNCHANGED <<baseKind, all_results, all_mappings, method_metrics, named, failed,
                   usedEntries>>
    /\ UNCHANGED <<replayVars, scanVars, mapVars, zVars, normVars, reportVars,
                   harnessVars>>

\* the loop body for the next problem directory in name order, its name given
\* by its rank
ProcessProblem(file, tree) ==
    /\ aggPc = "loop"
    /\ Len(named) < MaxProblems
    /\ usedEntries + Len(file.entries) <= MaxBaseEntries
    /\ UsedLogs(all_results) + TreeLogs(tree) <= MaxBaseLogs
    /\ LET problem_name == Len(named) + 1
           mapping == load_mapping_file(file)
           results == scan_problems_dir(tree)
       IN  /\ named' = Append(named, NamedIn(file))
           /\ usedEntries' = usedEntries + Len(file.entries)
           /\ IF mapping.raised # "none"
              THEN /\ aggPc' = "raised"
                   /\ aggExc' = mapping.raised
                   /\ UNCHANGED <<all_mappings, all_results, failed>>
              ELSE /\ aggPc' = aggPc
                   /\ aggExc' = aggExc
                   /\ all_mappings' = Append(all_mappings, <<problem_name, mapping.value>>)
                   /\ IF results.raised = "none"
                      THEN /\ all_results' = Append(all_results, <<problem_name, results.value>>)
                           /\ failed' = failed
                      ELSE /\ all_results' = all_results
                           /\ failed' = failed \cup {problem_name}
    /\ UNCHANGED <<baseKind, method_metrics>>
    /\ UNCHANGED <<replayVars, scanVars, mapVars, zVars, normVars, reportVars,
                   harnessVars>>

\* after the loop: the reverse mapping and the aggregation of every method
Aggregate ==
    /\ aggPc = "loop"
    /\ method_metrics' = AggregateAll(all_mappings, all_results)
    /\ aggPc' = "done"
    /\ UNCHANGED <<baseKind, all_results, all_mappings, aggExc, named, failed,
                   usedEntries>>
    /\ UNCHANGED <<replayVars, scanVars, mapVars, zVars, normVars, reportVars,
                   harnessVars>>

NextAgg ==
    \/ CheckBase
    \/ /\ aggPc = "loop" /\ Len(named) < MaxProblems
       /\ \E e \in 0..Min(MaxEntries, MaxBaseEntries - usedEntries),
             k \in 0..Min(2 * MaxLogs, MaxBaseLogs - UsedLogs(all_results)) :
             \E file \in FilesOfLength[e], tree \in TreesOfTotal[k] : ProcessProblem(file, tree)
    \/ Aggregate

SpecAgg ==
    /\ InitAgg
    /\ [][NextAgg]_vars

(* ------------------------------------------------------------------ *)
(* normalize                                                          *)
(* ------------------------------------------------------------------ *)
\* The characters of a text: a letter, a blank, and the line boundaries "\n" and
\* "\r" ("\r\n" is one boundary).
Chars == {"a", "sp", "nl", "cr"}
Texts == UNION {[1..k -> Chars] : k \in 0..MaxText}

\* str.splitlines(): the lines without their boundaries; no empty last line
RECURSIVE splitlines(_, _, _)
splitlines(s, line, lines) ==
    IF s = <<>> THEN IF line = <<>> THEN lines ELSE Append(lines, line)
    ELSE IF Head(s) = "cr" /\ Len(s) >= 2 /\ s[2] = "nl"
         THEN splitlines(Tail(Tail(s)), <<>>, Append(lines, line))
    ELSE IF Head(s) \in {"nl", "cr"}
         THEN splitlines(Tail(s), <<>>, Append(lines, line))
    ELSE splitlines(Tail(s), Append(line, Head(s)), lines)

\* str.rstrip(): the line without its trailing whitespace
RECURSIVE rstrip(_)
rstrip(line) ==
    IF line # <<>> /\ line[Len(line)] \in {"sp", "nl", "cr"}
    THEN rstrip(SubSeq(line, 1, Len(line) - 1))
    ELSE line

\* "\n".join(lines)
RECURSIVE join(_)
join(lines) ==
    IF lines = <<>> THEN <<>>
    ELSE IF Len(lines) = 1 THEN lines[1]
    ELSE lines[1] \o <<"nl">> \o join(Tail(lines))

\* s = "\n".join(line.rstrip() for line in s.splitlines()); a line terminator is
\* appended if s is non-empty and lacks it
normalize(s) ==
    LET lines == splitlines(s, <<>>, <<>>)
        joined == join([i \in DOMAIN lines |-> rstrip(lines[i])])
    IN  IF joined # <<>> /\ joined[Len(joined)] # "nl"
        THEN Append(joined, "nl")
        ELSE joined

NotNormalized == <<"pending">>

InitNorm ==
    /\ normIn \in Texts
    /\ normOut = NotNormalized
    /\ baseA = <<>> /\ baseB = <<>> /\ reportA = NoRun /\ reportB = NoRun
    /\ hPc = "idle" /\ args = NoArgs /\ cases_from_file = NoFile /\ cases = <<>>
    /\ idx = 0 /\ hFailed = 0 /\ child = NoChild /\ completed = NoCompleted
    /\ running = {} /\ launched = <<>> /\ case_results = <<>>
    /\ tally = NoTally /\ exit_status = NoExit
    \* the other functions are not running
    /\ hdr = [action |-> FALSE, info |-> FALSE, caret |-> FALSE, empty |-> TRUE]
    /\ pc = "idle"
    /\ buf = <<>> /\ caret = 0 /\ proposed = 0 /\ accepted = 0
    /\ suggested_chars = 0 /\ suggested_chars_deleted = 0
    /\ action = "" /\ n = 0 /\ exc = "none"
    /\ nrows = 0 /\ nprop = 0 /\ nacc = 0
    /\ sample = SampleOff
    /\ doc = <<>> /\ docCaret = 0 /\ docDeleted = 0 /\ consistent = FALSE
    /\ mapFile = [kind |-> "absent", entries |-> <<>>] /\ mapResult = Pending
    /\ norm = FALSE
    /\ metrics1 = [total_proposed |-> 0, total_accepted |-> 0]
    /\ metrics2 = [total_proposed |-> 0, total_accepted |-> 0]
    /\ p_value = "pending"
    /\ aggPc = "idle" /\ baseKind = "absent"
    /\ all_results = <<>> /\ all_mappings = <<>> /\ method_metrics = <<>>
    /\ aggExc = "none" /\ named = <<>> /\ failed = {}
    /\ usedEntries = 0
    /\ scanDir = [kind |-> "absent"] /\ scanResult = Pending

Normalize ==
    /\ normOut = NotNormalized
    /\ normOut' = normalize(normIn)
    /\ UNCHANGED normIn
    /\ UNCHANGED <<replayVars, scanVars, mapVars, zVars, aggVars, reportVars, harnessVars>>

SpecNorm == InitNorm /\ [][Normalize]_vars

(* ------------------------------------------------------------------ *)
(* main of the aggregator: process_all_problems and the report        *)
(* ------------------------------------------------------------------ *)
\* The base directories: problem directories in name order, each with its
\* mapping file (absent or a JSON object) and its assistant directories (both
\* present, holding logs only).
ReportFiles == [e \in 0..MaxEntries |-> {f \in FilesOfLength[e] : f.kind \in {"absent", "object"}}]
ReportTrees ==
    [k \in 0..(2 * MaxLogs) |->
        {t \in TreesOfTotal[k] : DOMAIN t.sub = Dirs /\ \A a \in Dirs : ~t.sub[a].csvdir}]
BaseProblems(e, k) == [file : ReportFiles[e], tree : ReportTrees[k]]
RECURSIVE BasesWithin(_, _, _)
BasesWithin(problems, entries, logs) ==
    IF problems = 0 THEN {<<>>}
    ELSE {<<>>} \cup
         UNION {{<<p>> \o b : p \in BaseProblems(ek[1], ek[2]),
                              b \in BasesWithin(problems - 1, entries - ek[1], logs - ek[2])} :
                   ek \in (0..Min(MaxEntries, entries)) \X (0..Min(2 * MaxLogs, logs))}
\* the same base directory with the entries of each mapping file in another order
PermsOf(s) == {[i \in DOMAIN s |-> s[f[i]]] : f \in Permutations(DOMAIN s)}
RECURSIVE ReorderingsOf(_)
ReorderingsOf(base) ==
    IF base = <<>> THEN {<<>>}
    ELSE {<<[file |-> [kind |-> Head(base).file.kind, entries |-> es],
             tree |-> Head(base).tree]>> \o rest :
             es \in PermsOf(Head(base).file.entries), rest \in ReorderingsOf(Tail(base))}

\* the loop of process_all_problems over the problem directories from the k-th on
RECURSIVE ProblemLoop(_, _, _, _)
ProblemLoop(base, k, mappings, results) ==
    IF k > Len(base)
    THEN [raised |-> "none", value |-> AggregateAll(mappings, results)]
    ELSE LET mapping == load_mapping_file(base[k].file)
             scanned == scan_problems_dir(base[k].tree)
         IN  IF mapping.raised # "none" THEN [raised |-> mapping.raised, value |-> <<>>]
             ELSE ProblemLoop(base, k + 1, Append(mappings, <<k, mapping.value>>),
                              IF scanned.raised = "none"
                              THEN Append(results, <<k, scanned.value>>)
                              ELSE results)
process_all_problems(base) == ProblemLoop(base, 1, <<>>, <<>>)

\* sorted(method_metrics.items()): the method names in sorted order
SortedMethods == <<"eta4", "untrained10">>
\* a standard error: 0.0 for at most one value, else statistics.stdev(values) /
\* len(values) ** 0.5, which depends on the values and not on their order
StandardError(values) ==
    IF Len(values) <= 1 THEN <<>>
    ELSE [v \in {values[i] : i \in DOMAIN values} |->
            Cardinality({i \in DOMAIN values : values[i] = v})]
\* x / y if y > 0 else 0.0, as the fraction <<x, y>>
Ratio(x, y) == IF y > 0 THEN <<x, y>> ELSE <<0, 1>>
Difference(r1, r2) == <<r1[1] * r2[2] - r2[1] * r1[2], r1[2] * r2[2]>>
\* the block printed for one method
MethodBlock(name, m) ==
    [name |-> name, problems |-> m.problem_count, csv_files |-> m.csv_file_count,
     proposed |-> m.total_proposed, accepted |-> m.total_accepted,
     acceptance_rate |-> Ratio(m.total_accepted, m.total_proposed),
     acceptance_rate_standard_error |-> StandardError(m.individual_acceptance_rates),
     suggested_chars |-> m.total_suggested_chars,
     suggested_chars_deleted |-> m.total_suggested_chars_deleted,
     avg_accepted_suggestion_length |-> Ratio(m.total_suggested_chars, m.total_accepted),
     avg_suggestion_length_standard_error
         |-> StandardError(m.individual_avg_suggestion_lengths),
     avg_deleted_chars_per_acceptance
         |-> Ratio(m.total_suggested_chars_deleted, m.total_accepted),
     avg_deleted_chars_standard_error |-> StandardError(m.individual_avg_deleted_chars)]
\* t_test_deleted_chars: NaN without scipy or with fewer than two values on a
\* side, else the one-sided test of values1 against values2
t_test_deleted_chars(m1, m2) ==
    IF ~norm THEN "nan"
    ELSE IF Len(m1.individual_avg_deleted_chars) < 2
            \/ Len(m2.individual_avg_deleted_chars) < 2 THEN "nan"
    ELSE <<StandardError(m1.individual_avg_deleted_chars),
           StandardError(m2.individual_avg_deleted_chars)>>
\* the COMPARISON section: methods = list(method_metrics.keys()), in dict order
Comparison(method_metrics_) ==
    LET m1 == method_metrics_[1][1]
        m2 == method_metrics_[2][1]
        a1 == method_metrics_[1][2]
        a2 == method_metrics_[2][2]
    IN  [m1 |-> m1, m2 |-> m2,
         acceptance_difference
             |-> Difference(Ratio(a1.total_accepted, a1.total_proposed),
                            Ratio(a2.total_accepted, a2.total_proposed)),
         p_value |-> two_proportion_z_test(a1, a2),
         deleted_difference
             |-> Difference(Ratio(a1.total_suggested_chars_deleted, a1.total_accepted),
                            Ratio(a2.total_suggested_chars_deleted, a2.total_accepted)),
         t_p_value |-> t_test_deleted_chars(a1, a2)]
print_aggregate_results(method_metrics_) ==
    IF method_metrics_ = <<>> THEN [printed |-> "No metrics found."]
    ELSE [printed |-> "AGGREGATE METRICS BY METHOD",
          methods |-> LET present == SelectSeq(SortedMethods,
                                       LAMBDA name : DictHas(method_metrics_, name))
                      IN  [i \in DOMAIN present |->
                             MethodBlock(present[i], DictGet(method_metrics_, present[i]))],
          comparison |-> IF Len(method_metrics_) = 2
                         THEN <<Comparison(method_metrics_)>> ELSE <<>>]
\* main: the report of a base directory, or the exception that ends the run
AggregateMain(base) ==
    LET returned == process_all_problems(base)
    IN  IF returned.raised # "none" THEN [printed |-> returned.raised]
        ELSE print_aggregate_results(returned.value)

InitReport ==
    /\ baseA \in BasesWithin(MaxProblems, MaxBaseEntries, MaxBaseLogs)
    /\ baseB \in ReorderingsOf(baseA)
    /\ reportA = NoRun /\ reportB = NoRun
    /\ norm \in BOOLEAN
    /\ metrics1 = [total_proposed |-> 0, total_accepted |-> 0]
    /\ metrics2 = [total_proposed |-> 0, total_accepted |-> 0]
    /\ p_value = "pending"
    /\ hdr = [action |-> FALSE, info |-> FALSE, caret |-> FALSE, empty |-> TRUE]
    /\ pc = "idle"
    /\ buf = <<>> /\ caret = 0 /\ proposed = 0 /\ accepted = 0
    /\ suggested_chars = 0 /\ suggested_chars_deleted = 0
    /\ action = "" /\ n = 0 /\ exc = "none"
    /\ nrows = 0 /\ nprop = 0 /\ nacc = 0
    /\ sample = SampleOff
    /\ doc = <<>> /\ docCaret = 0 /\ docDeleted = 0 /\ consistent = FALSE
    /\ scanDir = [kind |-> "absent"] /\ scanResult = Pending
    /\ mapFile = [kind |-> "absent", entries |-> <<>>] /\ mapResult = Pending
    /\ aggPc = "idle" /\ baseKind = "absent"
    /\ all_results = <<>> /\ all_mappings = <<>> /\ method_metrics = <<>>
    /\ aggExc = "none" /\ named = <<>> /\ failed = {}
    /\ usedEntries = 0
    /\ normIn = <<>> /\ normOut = <<>>
    /\ hPc = "idle" /\ args = NoArgs /\ cases_from_file = NoFile /\ cases = <<>>
    /\ idx = 0 /\ hFailed = 0 /\ child = NoChild /\ completed = NoCompleted
    /\ running = {} /\ launched = <<>> /\ case_results = <<>>
    /\ tally = NoTally /\ exit_status = NoExit

\* the aggregator run on the two base directories
Report ==
    /\ reportA = NoRun
    /\ reportA' = AggregateMain(baseA)
    /\ reportB' = AggregateMain(baseB)
    /\ UNCHANGED <<baseA, baseB>>
    /\ UNCHANGED <<replayVars, scanVars, mapVars, zVars, aggVars, normVars, harnessVars>>

SpecReport == InitReport /\ [][Report]_vars

(* ------------------------------------------------------------------ *)
(* run_testcases.py: main                                             *)
(* ------------------------------------------------------------------ *)
\* the exercise selectors of the command line
Modes == {"transducer", "lava", "binary_search", "merge", "cancel", "vector"}

\* Expected outputs: a line without its line terminator (as in the keyboard
\* table) and the same line with it (as in the other tables); outputs of a child.
ExpectedTexts == {<<"a">>, <<"a", "nl">>}
OutTexts == {<<"a">>, <<"a", "sp", "nl">>, <<"b", "nl">>}
FixtureLists == SeqsUpTo([out : ExpectedTexts], MaxCases)

\* BUILTIN_CASES: the tables by name, each cut to its first MaxCases cases
BuiltinSize ==
    [keyboard |-> 6, lava |-> 5, binary_search |-> 4, merge |-> 8, cancel |-> 8, vector |-> 7]
BUILTIN_CASES ==
    [m \in DOMAIN BuiltinSize |->
        [i \in 1..Min(BuiltinSize[m], MaxCases) |->
            [out |-> IF m = "keyboard" THEN <<"a">> ELSE <<"a", "nl">>]]]

\* the document of a --cases file: one exercise name with its fixture list
CasesFiles == [key : {"lava", "transducer"}, list : FixtureLists]

\* cases_from_file[mode] if cases_from_file is not None else BUILTIN_CASES[mode]
choose_cases(mode, file) ==
    IF file # NoFile
    THEN IF file.key = mode THEN [raised |-> "none", value |-> file.list]
         ELSE [raised |-> "KeyError", value |-> <<>>]
    ELSE IF mode \in DOMAIN BUILTIN_CASES
         THEN [raised |-> "none", value |-> BUILTIN_CASES[mode]]
         ELSE [raised |-> "KeyError", value |-> <<>>]

\* What a child does: what it writes to stdout and stderr and either its exit
\* code or that it is still running when the timeout expires.
Children ==
    {c \in [stdout : OutTexts, stderr : {"", "x"}, returncode : {0, 1}, timed_out : BOOLEAN] :
        c.timed_out => c.returncode = 0}

\* run_one_case: the CompletedProcess of subprocess.run, or on TimeoutExpired
\* returncode -9, e.stdout or b"", e.stderr or b"TIMEOUT"
run_one_case(c) ==
    IF c.timed_out
    THEN [returncode |-> -9, stdout |-> c.stdout,
          stderr |-> IF c.stderr # "" THEN c.stderr ELSE "TIMEOUT"]
    ELSE [returncode |-> c.returncode, stdout |-> c.stdout, stderr |-> c.stderr]

\* passed for an output that matches, whatever the return code
PassedIgnoresReturncode(expected, out, returncode, exact) ==
    IF exact THEN expected = out ELSE normalize(expected) = normalize(out)
\* passed = (exp_cmp == out_cmp) and (completed.returncode == 0)
Passed(expected, out, returncode, exact) ==
    /\ IF exact THEN expected = out ELSE normalize(expected) = normalize(out)
    /\ returncode = 0

\* a loop that never breaks
NeverStopsRun(passed, stop_on_fail) == FALSE
\* if args.stop_on_fail: break, in the branch of a failed case
StopsRun(passed, stop_on_fail) == ~passed /\ stop_on_fail

\* return 0 if failed == 0 else 1
ExitStatus(failed_) == IF failed_ = 0 THEN 0 ELSE 1

InitHarness ==
    /\ hPc = "start"
    /\ args \in [mode : Modes, cases : BOOLEAN, exact : BOOLEAN, stop_on_fail : BOOLEAN]
    /\ cases_from_file \in IF args.cases THEN CasesFiles ELSE {NoFile}
    /\ cases = <<>>
    /\ idx = 0 /\ hFailed = 0 /\ child = NoChild /\ completed = NoCompleted
    /\ running = {} /\ launched = <<>> /\ case_results = <<>>
    /\ tally = NoTally /\ exit_status = NoExit
    /\ normIn = <<>> /\ normOut = <<>>
    /\ baseA = <<>> /\ baseB = <<>> /\ reportA = NoRun /\ reportB = NoRun
    /\ hdr = [action |-> FALSE, info |-> FALSE, caret |-> FALSE, empty |-> TRUE]
    /\ pc = "idle"
    /\ buf = <<>> /\ caret = 0 /\ proposed = 0 /\ accepted = 0
    /\ suggested_chars = 0 /\ suggested_chars_deleted = 0
    /\ action = "" /\ n = 0 /\ exc = "none"
    /\ nrows = 0 /\ nprop = 0 /\ nacc = 0
    /\ sample = SampleOff
    /\ doc = <<>> /\ docCaret = 0 /\ docDeleted = 0 /\ consistent = FALSE
    /\ mapFile = [kind |-> "absent", entries |-> <<>>] /\ mapResult = Pending
    /\ norm = FALSE
    /\ metrics1 = [total_proposed |-> 0, total_accepted |-> 0]
    /\ metrics2 = [total_proposed |-> 0, total_accepted |-> 0]
    /\ p_value = "pending"
    /\ aggPc = "idle" /\ baseKind = "absent"
    /\ all_results = <<>> /\ all_mappings = <<>> /\ method_metrics = <<>>
    /\ aggExc = "none" /\ named = <<>> /\ failed = {}
    /\ usedEntries = 0
    /\ scanDir = [kind |-> "absent"] /\ scanResult = Pending

\* mode from the selector, cases_from_file, cases = choose_cases(...); an
\* uncaught KeyError ends the process with exit status 1
Choose ==
    /\ hPc = "start"
    /\ LET chosen == choose_cases(args.mode, cases_from_file)
       IN  IF chosen.raised # "none"
           THEN /\ hPc' = "raised"
                /\ exit_status' = 1
                /\ cases' = cases
           ELSE /\ hPc' = "loop"
                /\ exit_status' = exit_status
                /\ cases' = chosen.value
    /\ UNCHANGED <<args, cases_from_file, idx, hFailed, child, completed, running,
                   launched, case_results, tally>>
    /\ UNCHANGED <<replayVars, scanVars, mapVars, zVars, aggVars, normVars, reportVars>>

\* the loop reaches the next case: subprocess.run starts its child
Launch ==
    /\ hPc = "loop"
    /\ idx < Len(cases)
    /\ running' = running \cup {idx + 1}
    /\ launched' = Append(launched, idx + 1)
    /\ hPc' = "child"
    /\ UNCHANGED <<args, cases_from_file, cases, idx, hFailed, child, completed,
                   case_results, tally, exit_status>>
    /\ UNCHANGED <<replayVars, scanVars, mapVars, zVars, aggVars, normVars, reportVars>>

\* the child ends or the timeout expires; the rest of the loop body
Finish(c) ==
    /\ hPc = "child"
    /\ child' = c
    /\ completed' = run_one_case(c)
    /\ LET passed == Passed(cases[idx + 1].out, run_one_case(c).stdout,
                            run_one_case(c).returncode, args.exact)
       IN  /\ case_results' = Append(case_results, passed)
           /\ hFailed' = IF passed THEN hFailed ELSE hFailed + 1
           /\ hPc' = IF StopsRun(passed, args.stop_on_fail) THEN "break" ELSE "loop"
    /\ running' = running \ {idx + 1}
    /\ idx' = idx + 1
    /\ UNCHANGED <<args, cases_from_file, cases, launched, tally, exit_status>>
    /\ UNCHANGED <<replayVars, scanVars, mapVars, zVars, aggVars, normVars, reportVars>>

\* after the loop: the final line and the exit status
Finished ==
    /\ \/ hPc = "loop" /\ idx = Len(cases)
       \/ hPc = "break"
    /\ tally' = [failed |-> hFailed, total |-> Len(cases), passed |-> Len(cases) - hFailed]
    /\ exit_status' = ExitStatus(hFailed)
    /\ hPc' = "done"
    /\ UNCHANGED <<args, cases_from_file, cases, idx, hFailed, child, completed, running,
                   launched, case_results>>
    /\ UNCHANGED <<replayVars, scanVars, mapVars, zVars, aggVars, normVars, reportVars>>

NextHarness ==
    \/ Choose
    \/ Launch
    \/ \E c \in Children : Finish(c)
    \/ Finished

SpecHarness == InitHarness /\ [][NextHarness]_vars

(* ================================================================== *)
(* Properties of the replay                                           *)
(* ================================================================== *)

\* C1: the replay never rejects a row: whatever action_type, caret_index and
\* action_info the rows carry, no exception leaves compute_metrics_for_csv, and
\* after every row 0 <= caret <= len(buf).
ReplayNeverRejects ==
    /\ exc = "none"
    /\ pc # "raised"
    /\ 0 <= caret /\ caret <= Len(buf)
\* an inconsistent log was replayed to its end and the Metrics returned
ReplayNeverRejectsWitness ==
    /\ pc = "done" /\ hdr.action
    /\ nrows >= 2 /\ ~consistent
    /\ action = "deletion" /\ n > Len(buf) + 1

\* C2: for every consistent log of an editor that starts with an empty document,
\* suggested_chars_deleted equals the number of removed characters that the
\* editor had inserted through an accepted suggestion.
SuggestedDeletedIsExact ==
    consistent => suggested_chars_deleted = docDeleted

\* C3: on an empty buffer an accepted_suggestion row (action_info of length
\* L > 0, caret_index L) followed by a deletion row (action_info n with
\* 1 <= n <= L, caret_index L - n) yields Metrics(0, 1, L, n).
AcceptThenDeleteMetrics ==
    (pc = "done" /\ sample.st = "del") => Returned = Metrics(0, 1, sample.L, sample.n)
\* the log of the example: L = n = 3 gives Metrics(0, 1, 3, 3)
AcceptThenDeleteWitness ==
    /\ pc = "done" /\ sample.st = "del"
    /\ sample.L = 3 /\ sample.n = 3
    /\ Returned = Metrics(0, 1, 3, 3)

\* C4: a deletion row never raises; it removes min(n, caret before the row) tags,
\* all of them immediately before the caret, adds the number of removed
\* Suggested tags to suggested_chars_deleted, keeps the tags after the caret, and
\* leaves the caret inside [0, len(buf)].
DeletionStep == pc = "rows" /\ nrows' = nrows + 1 /\ action' = "deletion"
DeletionIsClamped ==
    [][DeletionStep =>
         LET k == Min(n', caret)
         IN  /\ pc' = "rows" /\ exc' = "none"
             /\ k >= 0 /\ k <= caret
             /\ buf' = SubSeq(buf, 1, caret - k) \o SubSeq(buf, caret + 1, Len(buf))
             /\ suggested_chars_deleted' =
                    suggested_chars_deleted + CountS(SubSeq(buf, caret - k + 1, caret))
             /\ 0 <= caret' /\ caret' <= Len(buf')]_vars
\* a deletion asked for more than the caret had before it, removed a Suggested
\* tag and left tags standing after the caret
DeletionIsClampedWitness ==
    /\ action = "deletion" /\ pc = "rows"
    /\ n > suggested_chars
    /\ suggested_chars_deleted >= 1
    /\ Len(buf) >= 1

\* C5: proposed counts the proposed_suggestion rows and accepted the
\* accepted_suggestion rows; a proposed_suggestion row changes neither buffer nor
\* caret; a log of proposed_suggestion rows only yields Metrics(rows, 0, 0, 0).
ProposedStep == pc = "rows" /\ nrows' = nrows + 1 /\ action' = "proposed_suggestion"
CountsMatchRows ==
    [][/\ proposed' = nprop' /\ accepted' = nacc'
       /\ ProposedStep => (buf' = buf /\ caret' = caret)
       /\ (pc' = "done" /\ nprop' = nrows') => Returned' = Metrics(nrows', 0, 0, 0)]_vars
\* a log of two or more rows, all of them proposed_suggestion, was replayed
CountsMatchRowsWitness ==
    /\ pc = "done" /\ hdr.action
    /\ nrows >= 2 /\ nprop = nrows
    /\ Returned = Metrics(nrows, 0, 0, 0)

\* C15: an accepted_suggestion row with action_info of length L > 0 inserts
\* exactly L Suggested tags at the caret held before the row and keeps every
\* other tag in place, adds L to suggested_chars, and moves the caret to the raw
\* caret_index clamped to the new buffer length; with empty or absent
\* action_info only accepted and the caret change.
AcceptedStep == pc = "rows" /\ nrows' = nrows + 1 /\ action' = "accepted_suggestion"
AcceptedIsPureInsertion ==
    [][AcceptedStep =>
        \A i \in InfosOf(hdr), c \in CaretsOf(hdr) :
          Accepted(Row("accepted_suggestion", i, c)) =>
             LET L == IF i.present THEN i.len ELSE 0
                 raw == IF c.kind = "int" THEN c.val ELSE caret
             IN  /\ accepted' = accepted + 1
                 /\ buf' = SubSeq(buf, 1, caret) \o [k \in 1..L |-> "S"]
                                \o SubSeq(buf, caret + 1, Len(buf))
                 /\ Len(buf') = Len(buf) + L
                 /\ suggested_chars' = suggested_chars + L
                 /\ caret' = IF raw < 0 THEN 0
                              ELSE IF raw > Len(buf') THEN Len(buf') ELSE raw
                 /\ proposed' = proposed
                 /\ suggested_chars_deleted' = suggested_chars_deleted]_vars
\* a second suggestion was accepted into a buffer that already held tags, and
\* its caret_index lay beyond the buffer as it was before the row
AcceptedIsPureInsertionWitness ==
    /\ action = "accepted_suggestion" /\ pc = "rows"
    /\ nrows = 2 /\ nacc = 2
    /\ suggested_chars = 3 /\ Len(buf) = 3 /\ caret = 3

\* C20: after every row the Suggested tags in the buffer plus
\* suggested_chars_deleted are at most suggested_chars; every row other than a
\* current_code row keeps the difference, so the two are equal until the first
\* current_code row; the returned suggested_chars_deleted never exceeds
\* suggested_chars.
SuggestedTagsAccounted ==
    /\ [](CountS(buf) + suggested_chars_deleted <= suggested_chars)
    /\ [](pc = "done" => Returned.suggested_chars_deleted <= Returned.suggested_chars)
    /\ [][action' # "current_code" =>
             suggested_chars' - (CountS(buf') + suggested_chars_deleted')
                 = suggested_chars - (CountS(buf) + suggested_chars_deleted)]_vars
\* a current_code row dropped a Suggested tag after another one had been deleted
SuggestedTagsAccountedWitness ==
    /\ action = "current_code" /\ pc = "rows"
    /\ suggested_chars_deleted >= 1
    /\ CountS(buf) + suggested_chars_deleted < suggested_chars

(* ================================================================== *)
(* Properties of the directory scan, the z-test and the aggregation    *)
(* ================================================================== *)

\* C6: scan_problems_dir raises SystemExit when the path is absent or no
\* directory; on a directory it returns exactly the immediate subdirectories that
\* hold at least one .csv file directly inside, each with one Metrics per file.
ScanReturnsCsvHolders ==
    scanResult.raised # "pending" =>
        IF scanDir.kind # "dir"
        THEN scanResult.raised = "SystemExit"
        ELSE /\ scanResult.raised = "none"
             /\ DOMAIN scanResult.value =
                    {a \in DOMAIN scanDir.sub : Len(scanDir.sub[a].logs) > 0}
             /\ \A a \in DOMAIN scanResult.value : scanResult.value[a] = scanDir.sub[a].logs

\* C7: with both total_proposed positive, two_proportion_z_test returns exactly
\* 0.5 when the two acceptance rates are equal and a value below 0.5 when the
\* rate of method 1 exceeds the rate of method 2, also for totals in which
\* accepted exceeds proposed.
ZTestFollowsRates ==
    (/\ p_value # "pending" /\ norm
     /\ metrics1.total_proposed > 0 /\ metrics2.total_proposed > 0) =>
        LET r1 == metrics1.total_accepted * metrics2.total_proposed
            r2 == metrics2.total_accepted * metrics1.total_proposed
        IN  /\ r1 = r2 => p_value = "half"
            /\ r1 > r2 => p_value = "below"

\* C8: for every method returned, problem_count is the number of problem
\* directories whose mapping file contains the method's name as an actualName.
NamedProblems(m) == {k \in DOMAIN named : m \in named[k].any}
ProblemCountIsNamedCount ==
    aggPc = "done" =>
        \A i \in DOMAIN method_metrics :
            method_metrics[i][2].problem_count = Cardinality(NamedProblems(method_metrics[i][1]))
\* C8, amended: problem_count is the number of problem directories whose mapping
\* file names the method in an entry that carries both fields and whose
\* obfuscatedDirName no later such entry of the file repeats.
KeptProblems(m) == {k \in DOMAIN named : m \in named[k].kept}
ProblemCountIsKeptCount ==
    aggPc = "done" =>
        /\ {method_metrics[i][1] : i \in DOMAIN method_metrics}
               = {m \in Methods : KeptProblems(m) # {}}
        /\ \A i \in DOMAIN method_metrics :
               method_metrics[i][2].problem_count
                   = Cardinality(KeptProblems(method_metrics[i][1]))
\* a method that one mapping file maps a directory to and that another mapping
\* file names in an entry without a directory is returned with problem_count 1
ProblemCountIsKeptCountWitness ==
    /\ aggPc = "done"
    /\ \E i \in DOMAIN method_metrics :
          /\ method_metrics[i][2].problem_count = 1
          /\ Cardinality(NamedProblems(method_metrics[i][1])) = 2

\* C9: when the scan of a problem directory fails, every method's
\* AggregateMetrics equals what it would be without that problem directory.
Surviving(mappings) ==
    SelectSeq(mappings, LAMBDA pm : pm[1] \notin failed)
WithoutFailed == AggregateAll(Surviving(all_mappings), all_results)
FailedProblemIsExcluded ==
    aggPc = "done" =>
        /\ DictKeys(method_metrics) = DictKeys(WithoutFailed)
        /\ \A m \in DictKeys(method_metrics) :
               DictGet(method_metrics, m) = DictGet(WithoutFailed, m)

\* C10: load_mapping_file never raises, whatever the mapping file holds, and
\* returns a mapping built only from the entries that carry both fields.
LoadMappingNeverFatal ==
    mapResult.raised # "pending" =>
        /\ mapResult.raised = "none"
        /\ \A i \in DOMAIN mapResult.value :
              \E j \in DOMAIN mapFile.entries :
                  /\ CarriesBoth(mapFile.entries[j])
                  /\ mapFile.entries[j].obf = mapResult.value[i][1]
                  /\ mapFile.entries[j].act = mapResult.value[i][2]

\* C16: for every method returned, the four totals are the sums over all logs
\* found in the (problem, obfuscated directory) pairs that the mapping files
\* assign to the method, csv_file_count is the number of those logs, and no log
\* is counted for two methods.
AssignedPairs(m) ==
    {p \in (DOMAIN named) \X Dirs : <<p[2], m>> \in named[p[1]].pairs}
FoundLogs(p) ==
    IF \E i \in DOMAIN all_results :
          all_results[i][1] = p[1] /\ p[2] \in DOMAIN all_results[i][2]
    THEN LET i == CHOOSE j \in DOMAIN all_results : all_results[j][1] = p[1]
         IN  all_results[i][2][p[2]]
    ELSE <<>>
FieldOverLogs(logs, field) == SumOver(DOMAIN logs, [j \in DOMAIN logs |-> logs[j][field]])
FieldOverPairs(m, field) ==
    SumOver(AssignedPairs(m),
            [p \in AssignedPairs(m) |-> FieldOverLogs(FoundLogs(p), field)])
TotalsMatchAssignedLogs ==
    aggPc = "done" =>
        /\ \A i \in DOMAIN method_metrics :
              LET m == method_metrics[i][1]
                  agg == method_metrics[i][2]
              IN  /\ agg.total_proposed = FieldOverPairs(m, "proposed")
                  /\ agg.total_accepted = FieldOverPairs(m, "accepted")
                  /\ agg.total_suggested_chars = FieldOverPairs(m, "suggested_chars")
                  /\ agg.total_suggested_chars_deleted
                         = FieldOverPairs(m, "suggested_chars_deleted")
                  /\ agg.csv_file_count
                         = SumOver(AssignedPairs(m),
                                   [p \in AssignedPairs(m) |-> Len(FoundLogs(p))])
        /\ SumOver(DOMAIN method_metrics,
                   [i \in DOMAIN method_metrics |-> method_metrics[i][2].csv_file_count])
               <= UsedLogs(all_results)
\* two logs of one problem assigned to a method, both logs in its totals
TotalsMatchAssignedLogsWitness ==
    /\ aggPc = "done"
    /\ \E i \in DOMAIN method_metrics :
          /\ method_metrics[i][2].csv_file_count = 2
          /\ method_metrics[i][2].problem_count = 1
          /\ method_metrics[i][2].total_suggested_chars = 5
          /\ Len(method_metrics[i][2].individual_acceptance_rates) = 1

\* C17: each of the three individual-measurement lists of a method holds at most
\* one value per problem, so its length never exceeds problem_count, also when
\* several obfuscated directories of one problem map to the method.
ListsArePerProblem ==
    aggPc = "done" =>
        \A i \in DOMAIN method_metrics :
            LET agg == method_metrics[i][2]
            IN  /\ Len(agg.individual_acceptance_rates) <= agg.problem_count
                /\ Len(agg.individual_avg_deleted_chars) <= agg.problem_count
                /\ Len(agg.individual_avg_suggestion_lengths) <= agg.problem_count

(* ================================================================== *)
(* Properties of the test harness and of the report                   *)
(* ================================================================== *)

\* C11: normalize returns a text in which no line has trailing whitespace and
\* which, when non-empty, ends with exactly one line terminator; a text without
\* a final line terminator normalizes to the same as the text with one.
NormalizeEndsWithOneTerminator ==
    normOut # NotNormalized =>
        /\ \A i \in DOMAIN normOut :
              normOut[i] = "sp" => (i < Len(normOut) /\ normOut[i + 1] # "nl")
        /\ \A i \in DOMAIN normOut : normOut[i] # "cr"
        /\ normOut # <<>> =>
              /\ normOut[Len(normOut)] = "nl"
              /\ Len(normOut) >= 2 => normOut[Len(normOut) - 1] # "nl"
        /\ (normIn # <<>> /\ normIn[Len(normIn)] \notin {"nl", "cr"}) =>
              normalize(Append(normIn, "nl")) = normOut

\* C19: two base directories that differ only in the order of the entries inside
\* their mapping files (each file naming a directory at most once) give the same
\* report, including which method the head-to-head section takes as method 1.
NamesEachDirOnce(base) ==
    \A k \in DOMAIN base :
        \A i, j \in DOMAIN base[k].file.entries :
            (base[k].file.entries[i].obf = base[k].file.entries[j].obf) => i = j
ReportIsReproducible ==
    (reportA # NoRun /\ NamesEachDirOnce(baseA)) => reportA = reportB


\* C12: a case passes exactly when its output (normalized, or as it is under
\* --exact) equals the expected text and the child's exit code is 0; the exit
\* status of the harness is 0 exactly when every case of the selected list
\* passed, and 1 otherwise, also when --stop-on-fail ended the run early.
PassIffMatchAndExitZero ==
    /\ (hPc \in {"loop", "break"} /\ case_results # <<>>) =>
          (case_results[Len(case_results)] <=>
              /\ completed.returncode = 0
              /\ IF args.exact
                 THEN completed.stdout = cases[Len(case_results)].out
                 ELSE normalize(completed.stdout) = normalize(cases[Len(case_results)].out))
    /\ hPc = "done" =>
          /\ exit_status \in {0, 1}
          /\ exit_status = 0 <=>
                /\ Len(case_results) = Len(cases)
                /\ \A i \in DOMAIN case_results : case_results[i]

\* the right output with exit code 1 under --stop-on-fail: the run ends after
\* the first of two cases with exit status 1
PassIffMatchAndExitZeroWitness ==
    /\ hPc = "done" /\ args.stop_on_fail /\ ~args.exact
    /\ Len(cases) = 2 /\ case_results = <<FALSE>>
    /\ completed.returncode = 1
    /\ completed.stdout # cases[1].out
    /\ normalize(completed.stdout) = normalize(cases[1].out)
    /\ exit_status = 1

\* C13: for every accepted combination of exercise selector and fixture
\* source, a run in which no case fails ends with exit status 0.
ExitsNonZeroOnlyOnFailedCase ==
    (hPc \in {"done", "raised"} /\ \A i \in DOMAIN case_results : case_results[i])
        => exit_status = 0

\* C14: when the child exceeds the timeout the result has return code -9, the
\* stdout captured so far and the stderr text TIMEOUT, whatever the child had
\* written to stderr, and the case is counted as failed.
TimeoutIsSynthesized ==
    (hPc \in {"loop", "break"} /\ case_results # <<>> /\ child.timed_out) =>
        /\ completed = [returncode |-> -9, stdout |-> child.stdout, stderr |-> "TIMEOUT"]
        /\ ~case_results[Len(case_results)]
        /\ hFailed >= 1

\* C18: the cases run one after another in list order, never two children at
\* once and never a case twice; without --stop-on-fail every case is launched
\* exactly once, and with --stop-on-fail none after the first failing case.
CasesRunInOrderOnce ==
    /\ Cardinality(running) <= 1
    /\ launched = [i \in 1..Len(launched) |-> i]
    /\ Len(launched) <= Len(cases)
    /\ Len(launched) <= Len(case_results) + 1
    /\ running = IF hPc = "child" THEN {launched[Len(launched)]} ELSE {}
    /\ (hPc = "done" /\ ~args.stop_on_fail) => Len(launched) = Len(cases)
    /\ args.stop_on_fail =>
          \A i \in DOMAIN case_results : ~case_results[i] => Len(launched) <= i

\* with --stop-on-fail the first of two cases fails and the second is never launched
CasesRunInOrderOnceWitness ==
    /\ hPc = "done" /\ args.stop_on_fail
    /\ Len(cases) = MaxCases /\ launched = <<1>> /\ case_results = <<FALSE>>


\* C21: in the final tally the number reported as passed is the number of
\* cases that were run and passed, and the number reported as failed is the
\* number run and failed, also when --stop-on-fail ended the run early: a case
\* that was never launched is not reported as passed.
TallyCountsRunCases ==
    hPc = "done" =>
        /\ tally.failed = Cardinality({i \in DOMAIN case_results : ~case_results[i]})
        /\ tally.passed = Cardinality({i \in DOMAIN case_results : case_results[i]})
====
